---- MODULE Spec2Model ----
(***************************************************************************)
(* Model of the Oppia suggestion storage model                             *)
(* (core/storage/suggestion/gae_models.py, class GeneralSuggestionModel).  *)
(*                                                                         *)
(* The datastore is a map from suggestion ids to model instances.  Every   *)
(* classmethod of GeneralSuggestionModel is one action.  A call writes     *)
(* its arguments and its outcome (result or raised error) to `last`; the   *)
(* caller then takes the outcome (Return) before the next call is issued.  *)
(* Python strings that are inspected character by character (the score     *)
(* categories) are sequences of one-character strings.                     *)
(***************************************************************************)
EXTENDS Integers, Sequences, FiniteSets, TLC

VARIABLES
    store,      \* datastore: suggestion id -> stored GeneralSuggestionModel
    last,       \* the call in progress: [op, args, result, error]
    now,        \* datetime.datetime.utcnow(), in milliseconds
    pc,         \* concurrent create calls: request handler -> position
    req,        \* concurrent create calls: request handler -> arguments, outcome
    env,        \* branch cut: the git repository, its remote, the latest release
    cut         \* branch cut: the run of cut_release_or_hotfix_branch.py

vars == <<store, last, now, pc, req, env, cut>>

-----------------------------------------------------------------------------
(* Bounds of the model.                                                    *)

\* Number of distinct thread ids a suggestion can be created under.
MaxSuggestions == 2

\* Longest list of (field, value) pairs handed to query_suggestions.
MaxQueryLen == 2

\* feconf.DEFAULT_QUERY_LIMIT, scaled down so that fetch truncates.
DEFAULT_QUERY_LIMIT == 1

\* The clock stops this many milliseconds past the staleness threshold.
MaxClockSlack == 1

-----------------------------------------------------------------------------
(* Module constants of gae_models.py.                                      *)

TARGET_TYPE_EXPLORATION == "exploration"
TARGET_TYPE_QUESTION == "question"
TARGET_TYPE_SKILL == "skill"
TARGET_TYPE_TOPIC == "topic"

TARGET_TYPE_CHOICES ==
    {TARGET_TYPE_EXPLORATION, TARGET_TYPE_QUESTION, TARGET_TYPE_SKILL,
     TARGET_TYPE_TOPIC}

STATUS_ACCEPTED == "accepted"
STATUS_IN_REVIEW == "review"
STATUS_REJECTED == "rejected"

STATUS_CHOICES == {STATUS_ACCEPTED, STATUS_IN_REVIEW, STATUS_REJECTED}

SUGGESTION_TYPE_EDIT_STATE_CONTENT == "edit_exploration_state_content"
SUGGESTION_TYPE_TRANSLATE_CONTENT == "translate_content"
SUGGESTION_TYPE_ADD_QUESTION == "add_question"

SUGGESTION_TYPE_CHOICES ==
    {SUGGESTION_TYPE_EDIT_STATE_CONTENT, SUGGESTION_TYPE_TRANSLATE_CONTENT,
     SUGGESTION_TYPE_ADD_QUESTION}

SCORE_TYPE_CONTENT == <<"c", "o", "n", "t", "e", "n", "t">>
SCORE_TYPE_TRANSLATION ==
    <<"t", "r", "a", "n", "s", "l", "a", "t", "i", "o", "n">>
SCORE_TYPE_QUESTION == <<"q", "u", "e", "s", "t", "i", "o", "n">>

SCORE_TYPE_CHOICES ==
    {SCORE_TYPE_CONTENT, SCORE_TYPE_TRANSLATION, SCORE_TYPE_QUESTION}

\* A delimiter that occurs in the score types. Used to show that C21
\* depends on the choice of the delimiter.
SCORE_CATEGORY_DELIMITER_InScoreTypes == "t"

SCORE_CATEGORY_DELIMITER == "."

THRESHOLD_DAYS_BEFORE_ACCEPT == 7

THRESHOLD_TIME_BEFORE_ACCEPT_IN_MSECS ==
    THRESHOLD_DAYS_BEFORE_ACCEPT * 24 * 60 * 60 * 1000

ALLOWED_QUERY_FIELDS ==
    {"suggestion_type", "target_type", "target_id", "status", "author_id",
     "final_reviewer_id", "score_category"}

-----------------------------------------------------------------------------
(* Values.                                                                 *)

\* Python's None (an unset final_reviewer_id, "no error", "no result").
None == "None"

\* The properties declared on GeneralSuggestionModel, in declaration order.
ModelFields ==
    {"suggestion_type", "target_type", "target_id",
     "target_version_at_submission", "status", "author_id",
     "final_reviewer_id", "change_cmd", "score_category"}

\* choices= of the three enum-valued StringProperty declarations.
ChoiceFields == {"suggestion_type", "target_type", "status"}

Choices(field) ==
    CASE field = "suggestion_type" -> SUGGESTION_TYPE_CHOICES
      [] field = "target_type" -> TARGET_TYPE_CHOICES
      [] field = "status" -> STATUS_CHOICES

\* A property without its choices= check: every value passes. Used to show
\* that C10 depends on the validation of IsAllowedChoice.
IsAllowedChoice_Any(field, value) == TRUE

\* Property._do_validate: a value of a property with choices must be one
\* of them, else BadValueError('... is not an allowed choice').
IsAllowedChoice(field, value) ==
    field \in ChoiceFields => value \in Choices(field)

-----------------------------------------------------------------------------
(* Inputs of the calls.                                                    *)

SuggestionIds == 1 .. MaxSuggestions

\* SuggestionModelUnitTests.score_category: 'translation' + '.' + 'English'.
TranslationEnglish ==
    SCORE_TYPE_TRANSLATION \o <<SCORE_CATEGORY_DELIMITER>> \o <<"E", "n">>

ContentAlgebra ==
    SCORE_TYPE_CONTENT \o <<SCORE_CATEGORY_DELIMITER>> \o <<"A", "l">>

\* 'category1' of the tests: a score category without type and delimiter.
Category1 == <<"c", "1">>

\* The suggestion the unit tests create first (setUp), without a reviewer.
FixtureArgs ==
    [suggestion_type |-> SUGGESTION_TYPE_EDIT_STATE_CONTENT,
     target_type |-> TARGET_TYPE_EXPLORATION,
     target_id |-> "exp1",
     target_version_at_submission |-> 1,
     status |-> STATUS_IN_REVIEW,
     author_id |-> "author_1",
     final_reviewer_id |-> None,
     change_cmd |-> <<>>,
     score_category |-> TranslationEnglish]

\* Every argument tuple over the values below ...
ArgSpace ==
    [suggestion_type :
         {SUGGESTION_TYPE_EDIT_STATE_CONTENT,
          SUGGESTION_TYPE_TRANSLATE_CONTENT, "invalid_suggestion_type"},
     target_type : {TARGET_TYPE_EXPLORATION, "invalid_target_type"},
     target_id : {"exp1"},
     target_version_at_submission : {1},
     status : STATUS_CHOICES \cup {"invalid_status"},
     author_id : {"author_1", "author_2"},
     final_reviewer_id : {None, "author_2"},
     change_cmd : {<<>>},
     score_category : {TranslationEnglish, ContentAlgebra, Category1}]

\* ... that differs from the fixture in at most one argument.
CreateInputs ==
    {a \in ArgSpace :
        \E f \in ModelFields :
            \A g \in ModelFields \ {f} : a[g] = FixtureArgs[g]}

UserIds == {"author_1", "author_2"}

\* (field, value) pairs handed to query_suggestions.
QueryPairs ==
    {<<"suggestion_type", SUGGESTION_TYPE_EDIT_STATE_CONTENT>>,
     <<"suggestion_type", "invalid_suggestion_type">>,
     <<"target_type", TARGET_TYPE_EXPLORATION>>,
     <<"target_type", "invalid_target_type">>,
     <<"target_id", "exp1">>,
     <<"status", STATUS_IN_REVIEW>>,
     <<"status", STATUS_ACCEPTED>>,
     <<"status", "invalid_status">>,
     <<"author_id", "author_1">>,
     <<"final_reviewer_id", "author_2">>,
     <<"score_category", TranslationEnglish>>,
     <<"invalid_field", "value">>}

QueryInputs ==
    UNION {[1 .. n -> QueryPairs] : n \in 0 .. MaxQueryLen}


UserInputs == UserIds \cup {"id_x"}

ScoreCategoryInputs ==
    SUBSET {TranslationEnglish, ContentAlgebra, Category1}

SuggestionTypeInputs ==
    {SUGGESTION_TYPE_EDIT_STATE_CONTENT, SUGGESTION_TYPE_TRANSLATE_CONTENT,
     "invalid_suggestion_type"}

\* Inputs of the runs in which the clock advances: the fixture suggestion
\* with any status, and queries on the status.
ClockCreateInputs ==
    {a \in CreateInputs :
        \A g \in ModelFields \ {"status"} : a[g] = FixtureArgs[g]}

ClockQueryPairs ==
    {<<"status", STATUS_IN_REVIEW>>, <<"invalid_field", "value">>}

ClockQueryInputs ==
    UNION {[1 .. n -> ClockQueryPairs] : n \in 0 .. MaxQueryLen}

ClockCategoryInputs == SUBSET {TranslationEnglish}

ClockTypeInputs == {SUGGESTION_TYPE_EDIT_STATE_CONTENT}

\* The instants at which calls are made: up to MaxClockSlack milliseconds
\* after the first call, and after the staleness threshold has passed.
ClockValues ==
    {k : k \in 0 .. MaxClockSlack}
        \cup {THRESHOLD_TIME_BEFORE_ACCEPT_IN_MSECS + k :
                  k \in 0 .. MaxClockSlack}

\* The values of THRESHOLD_TIME_BEFORE_ACCEPT_IN_MSECS under which the stale
\* query is called: the module's own, and 0 as swapped in by the tests.
ThresholdInputs == {0, THRESHOLD_TIME_BEFORE_ACCEPT_IN_MSECS}

\* Inputs of the concurrent create calls.
RaceInputs ==
    {a \in CreateInputs :
        \A g \in ModelFields \ {"author_id", "status"} :
            a[g] = FixtureArgs[g]}

-----------------------------------------------------------------------------
(* The datastore and the model class.                                      *)

\* cls.get_by_id(instance_id): the stored instance, or None. The optional
\* instance is a sequence of length at most one.
get_by_id(s, instance_id) ==
    IF instance_id \in DOMAIN s THEN <<s[instance_id]>> ELSE <<>>

\* Truth value of `cls.get_by_id(instance_id)` in the `if` of create.
Truthy(optional) == Len(optional) > 0

\* The shape the declaration of score_category describes: a value of
\* SCORE_TYPE_CHOICES, the delimiter, a subcategory.
HasScoreCategoryShape(c) ==
    \E k \in 1 .. Len(c) :
        /\ c[k] = SCORE_CATEGORY_DELIMITER
        /\ SubSeq(c, 1, k - 1) \in SCORE_TYPE_CHOICES

\* A constructor call that puts a score category without the shape under
\* the score type 'content'. Used to show that C20 depends on NewModel
\* storing the argument as it is.
NewModel_ShapedScoreCategory(instance_id, a) ==
    [id |-> instance_id,
     suggestion_type |-> a.suggestion_type,
     target_type |-> a.target_type,
     target_id |-> a.target_id,
     target_version_at_submission |-> a.target_version_at_submission,
     status |-> a.status,
     author_id |-> a.author_id,
     final_reviewer_id |-> a.final_reviewer_id,
     change_cmd |-> a.change_cmd,
     score_category |->
         IF HasScoreCategoryShape(a.score_category)
         THEN a.score_category
         ELSE SCORE_TYPE_CONTENT \o <<SCORE_CATEGORY_DELIMITER>>
                  \o a.score_category]

\* A constructor call with author_id and final_reviewer_id exchanged. Used
\* to show that C3 depends on the keyword mapping of NewModel.
NewModel_ReviewerAsAuthor(instance_id, a) ==
    [id |-> instance_id,
     suggestion_type |-> a.suggestion_type,
     target_type |-> a.target_type,
     target_id |-> a.target_id,
     target_version_at_submission |-> a.target_version_at_submission,
     status |-> a.status,
     author_id |-> a.final_reviewer_id,
     final_reviewer_id |-> a.author_id,
     change_cmd |-> a.change_cmd,
     score_category |-> a.score_category]

\* A constructor call that ignores the status argument and starts every
\* instance in IN_REVIEW. Used to show that C4 depends on NewModel.
NewModel_AlwaysInReview(instance_id, a) ==
    [id |-> instance_id,
     suggestion_type |-> a.suggestion_type,
     target_type |-> a.target_type,
     target_id |-> a.target_id,
     target_version_at_submission |-> a.target_version_at_submission,
     status |-> STATUS_IN_REVIEW,
     author_id |-> a.author_id,
     final_reviewer_id |-> a.final_reviewer_id,
     change_cmd |-> a.change_cmd,
     score_category |-> a.score_category]

\* A constructor call that drops the final reviewer of an instance in
\* IN_REVIEW. Used to show that C5 depends on NewModel.
NewModel_InReviewDropsReviewer(instance_id, a) ==
    [id |-> instance_id,
     suggestion_type |-> a.suggestion_type,
     target_type |-> a.target_type,
     target_id |-> a.target_id,
     target_version_at_submission |-> a.target_version_at_submission,
     status |-> a.status,
     author_id |-> a.author_id,
     final_reviewer_id |->
         IF a.status = STATUS_IN_REVIEW THEN None ELSE a.final_reviewer_id,
     change_cmd |-> a.change_cmd,
     score_category |-> a.score_category]

\* cls(id=instance_id, suggestion_type=suggestion_type, ...): the instance
\* the constructor call of create builds from its keyword arguments.
NewModel(instance_id, a) ==
    [id |-> instance_id,
     suggestion_type |-> a.suggestion_type,
     target_type |-> a.target_type,
     target_id |-> a.target_id,
     target_version_at_submission |-> a.target_version_at_submission,
     status |-> a.status,
     author_id |-> a.author_id,
     final_reviewer_id |-> a.final_reviewer_id,
     change_cmd |-> a.change_cmd,
     score_category |-> a.score_category]

\* A constructor without validation. Used to show that C22 depends on the
\* choices= of the three enum-valued properties.
ConstructorAccepts_Anything(a) == TRUE

\* The constructor validates every keyword against its property.
ConstructorAccepts(a) ==
    \A f \in ChoiceFields : IsAllowedChoice(f, a[f])

\* BaseModel.last_updated: the store stamps the instance on every write.
Stamped(m, utcnow) ==
    [f \in DOMAIN m \cup {"last_updated"} |->
        IF f = "last_updated" THEN utcnow ELSE m[f]]

\* instance.put(): the instance is stored under its key.
put(s, m, utcnow) ==
    [i \in DOMAIN s \cup {m.id} |->
        IF i = m.id THEN Stamped(m, utcnow) ELSE s[i]]

\* A duplicate check that never finds the id. Used to show that C6 depends
\* on CreateFindsDuplicate.
CreateFindsDuplicate_Never(s, thread_id) == FALSE

\* create, first half: `if cls.get_by_id(instance_id): raise Exception(...)`.
CreateFindsDuplicate(s, thread_id) ==
    LET instance_id == thread_id IN Truthy(get_by_id(s, instance_id))

\* create, second half: `cls(id=instance_id, ...).put()`.
CreateWrites(s, a, thread_id, utcnow) ==
    LET instance_id == thread_id IN
    IF ~ConstructorAccepts(a)
    THEN [error |-> "InvalidChoice", store |-> s]
    ELSE [error |-> None,
          store |-> put(s, NewModel(instance_id, a), utcnow)]

\* A create without its duplicate check. Used to show that C1 depends on
\* the check of create.
create_WithoutIdCheck(s, a, thread_id, utcnow) ==
    CreateWrites(s, a, thread_id, utcnow)

\* GeneralSuggestionModel.create: the error it raises (None when it
\* returns) and the datastore it leaves.
create(s, a, thread_id, utcnow) ==
    IF CreateFindsDuplicate(s, thread_id)
    THEN [error |-> "DuplicateId", store |-> s]
    ELSE CreateWrites(s, a, thread_id, utcnow)

\* cls.query(): every stored instance.
AllModels(s) == {s[i] : i \in DOMAIN s}

\* BaseModel.get_all(): every stored instance that is not marked deleted;
\* nothing here marks an instance deleted.
get_all(s) == AllModels(s)

\* A fetch that ignores its limit. Used to show that C9 depends on fetch.
fetch_Unlimited(query, limit) == {query}

\* query.fetch(limit): at most `limit` of the matching instances; the
\* datastore decides which when there are more.
fetch(query, limit) ==
    {r \in SUBSET query :
        Cardinality(r) = IF Cardinality(query) <= limit
                         THEN Cardinality(query) ELSE limit}

\* A loop that validates every pair and applies only the last filter.
\* Used to show that C30 depends on the loop applying every filter.
RECURSIVE QueryLoop_LastFilterOnly(_, _, _)
QueryLoop_LastFilterOnly(pairs, i, query) ==
    IF i > Len(pairs)
    THEN [error |-> None, query |-> query]
    ELSE LET field == pairs[i][1]
             value == pairs[i][2]
         IN  IF field \notin ALLOWED_QUERY_FIELDS
             THEN [error |-> "InvalidField", query |-> {}]
             ELSE IF ~IsAllowedChoice(field, value)
             THEN [error |-> "InvalidChoice", query |-> {}]
             ELSE QueryLoop_LastFilterOnly(pairs, i + 1,
                      IF i = Len(pairs)
                      THEN {m \in query : m[field] = value}
                      ELSE query)

\* A loop that passes over a pair with a disallowed field instead of
\* raising. Used to show that C7 depends on the allow-list test of QueryLoop.
RECURSIVE QueryLoop_SkipsDisallowed(_, _, _)
QueryLoop_SkipsDisallowed(pairs, i, query) ==
    IF i > Len(pairs)
    THEN [error |-> None, query |-> query]
    ELSE LET field == pairs[i][1]
             value == pairs[i][2]
         IN  IF field \notin ALLOWED_QUERY_FIELDS
             THEN QueryLoop_SkipsDisallowed(pairs, i + 1, query)
             ELSE IF ~IsAllowedChoice(field, value)
             THEN [error |-> "InvalidChoice", query |-> {}]
             ELSE QueryLoop_SkipsDisallowed(pairs, i + 1,
                                            {m \in query : m[field] = value})

\* A loop that validates every pair and applies only the first filter.
\* Used to show that C8 depends on the narrowing of QueryLoop.
RECURSIVE QueryLoop_FirstFilterOnly(_, _, _)
QueryLoop_FirstFilterOnly(pairs, i, query) ==
    IF i > Len(pairs)
    THEN [error |-> None, query |-> query]
    ELSE LET field == pairs[i][1]
             value == pairs[i][2]
         IN  IF field \notin ALLOWED_QUERY_FIELDS
             THEN [error |-> "InvalidField", query |-> {}]
             ELSE IF ~IsAllowedChoice(field, value)
             THEN [error |-> "InvalidChoice", query |-> {}]
             ELSE QueryLoop_FirstFilterOnly(pairs, i + 1,
                      IF i = 1 THEN {m \in query : m[field] = value}
                      ELSE query)

\* The loop of query_suggestions from pair i on: the first pair with a
\* field outside ALLOWED_QUERY_FIELDS raises, the first pair whose value
\* the property rejects raises, every other pair narrows the query.
RECURSIVE QueryLoop(_, _, _)
QueryLoop(pairs, i, query) ==
    IF i > Len(pairs)
    THEN [error |-> None, query |-> query]
    ELSE LET field == pairs[i][1]
             value == pairs[i][2]
         IN  IF field \notin ALLOWED_QUERY_FIELDS
             THEN [error |-> "InvalidField", query |-> {}]
             ELSE IF ~IsAllowedChoice(field, value)
             THEN [error |-> "InvalidChoice", query |-> {}]
             ELSE QueryLoop(pairs, i + 1,
                            {m \in query : m[field] = value})

\* GeneralSuggestionModel.query_suggestions up to the fetch.
query_suggestions(s, query_fields_and_values) ==
    QueryLoop(query_fields_and_values, 1, AllModels(s))

\* A reference check that looks at the author only. Used to show that C23
\* depends on the final_reviewer_id branch of the ndb.OR.
has_reference_to_user_id_AuthorOnly(s, user_id) ==
    \E m \in AllModels(s) : m.author_id = user_id

\* GeneralSuggestionModel.has_reference_to_user_id.
has_reference_to_user_id(s, user_id) ==
    \E m \in AllModels(s) :
        m.author_id = user_id \/ m.final_reviewer_id = user_id

\* A stale query that asks for one millisecond more than the threshold.
\* Used to show that C16 depends on the comparison with threshold_time.
get_all_stale_suggestions_Late(s, utcnow, threshold) ==
    LET threshold_time == utcnow - threshold IN
    {m \in get_all(s) :
        m.status = STATUS_IN_REVIEW /\ m.last_updated < threshold_time - 1}

\* A stale query without the status filter. Used to show that C17 depends
\* on the IN_REVIEW filter.
get_all_stale_suggestions_AnyStatus(s, utcnow, threshold) ==
    LET threshold_time == utcnow - threshold IN
    {m \in get_all(s) : m.last_updated < threshold_time}

\* GeneralSuggestionModel.get_all_stale_suggestions (fetch without limit).
\* `threshold` is the value the module attribute
\* THRESHOLD_TIME_BEFORE_ACCEPT_IN_MSECS has when the call is made.
get_all_stale_suggestions(s, utcnow, threshold) ==
    LET threshold_time == utcnow - threshold IN
    {m \in get_all(s) :
        m.status = STATUS_IN_REVIEW /\ m.last_updated < threshold_time}

\* A category routing query that does not exclude the caller's own
\* suggestions. Used to show that C11 depends on the author filter.
get_in_review_suggestions_in_score_categories_IncludesOwn(s, score_categories, user_id) ==
    IF Cardinality(score_categories) = 0
    THEN [error |-> "EmptyInput", query |-> {}]
    ELSE [error |-> None,
          query |-> {m \in get_all(s) :
                        /\ m.status = STATUS_IN_REVIEW
                        /\ m.score_category \in score_categories}]

\* A category routing query without the check for an empty list: IN over
\* no values matches nothing. Used to show that C12 depends on the check.
get_in_review_suggestions_in_score_categories_Unchecked(s, score_categories, user_id) ==
    [error |-> None,
     query |-> {m \in get_all(s) :
                   /\ m.status = STATUS_IN_REVIEW
                   /\ m.score_category \in score_categories
                   /\ m.author_id # user_id}]

\* GeneralSuggestionModel.get_in_review_suggestions_in_score_categories up
\* to the fetch.
get_in_review_suggestions_in_score_categories(s, score_categories, user_id) ==
    IF Cardinality(score_categories) = 0
    THEN [error |-> "EmptyInput", query |-> {}]
    ELSE [error |-> None,
          query |-> {m \in get_all(s) :
                        /\ m.status = STATUS_IN_REVIEW
                        /\ m.score_category \in score_categories
                        /\ m.author_id # user_id}]

\* A type routing query that does not exclude the caller's own
\* suggestions. Used to show that C29 depends on the author filter.
get_in_review_suggestions_of_suggestion_type_IncludesOwn(s, suggestion_type, user_id) ==
    IF ~IsAllowedChoice("suggestion_type", suggestion_type)
    THEN [error |-> "InvalidChoice", query |-> {}]
    ELSE [error |-> None,
          query |-> {m \in get_all(s) :
                        /\ m.status = STATUS_IN_REVIEW
                        /\ m.suggestion_type = suggestion_type}]

\* A type routing query without the status filter. Used to show that C13
\* depends on the IN_REVIEW filter.
get_in_review_suggestions_of_suggestion_type_AnyStatus(s, suggestion_type, user_id) ==
    IF ~IsAllowedChoice("suggestion_type", suggestion_type)
    THEN [error |-> "InvalidChoice", query |-> {}]
    ELSE [error |-> None,
          query |-> {m \in get_all(s) :
                        /\ m.suggestion_type = suggestion_type
                        /\ m.author_id # user_id}]

\* GeneralSuggestionModel.get_in_review_suggestions_of_suggestion_type up
\* to the fetch.
get_in_review_suggestions_of_suggestion_type(s, suggestion_type, user_id) ==
    IF ~IsAllowedChoice("suggestion_type", suggestion_type)
    THEN [error |-> "InvalidChoice", query |-> {}]
    ELSE [error |-> None,
          query |-> {m \in get_all(s) :
                        /\ m.status = STATUS_IN_REVIEW
                        /\ m.suggestion_type = suggestion_type
                        /\ m.author_id # user_id}]

\* An author query without the status filter. Used to show that C14
\* depends on the IN_REVIEW filter.
get_user_created_suggestions_of_suggestion_type_AnyStatus(s, suggestion_type, user_id) ==
    IF ~IsAllowedChoice("suggestion_type", suggestion_type)
    THEN [error |-> "InvalidChoice", query |-> {}]
    ELSE [error |-> None,
          query |-> {m \in get_all(s) :
                        /\ m.suggestion_type = suggestion_type
                        /\ m.author_id = user_id}]

\* GeneralSuggestionModel.get_user_created_suggestions_of_suggestion_type
\* up to the fetch.
get_user_created_suggestions_of_suggestion_type(s, suggestion_type, user_id) ==
    IF ~IsAllowedChoice("suggestion_type", suggestion_type)
    THEN [error |-> "InvalidChoice", query |-> {}]
    ELSE [error |-> None,
          query |-> {m \in get_all(s) :
                        /\ m.status = STATUS_IN_REVIEW
                        /\ m.suggestion_type = suggestion_type
                        /\ m.author_id = user_id}]

\* A projection query without distinct=True: one entity per stored
\* instance. Used to show that C15 depends on distinct=True.
get_all_score_categories_NotDistinct(s) ==
    [c \in {m.score_category : m \in AllModels(s)} |->
        Cardinality({m \in AllModels(s) : m.score_category = c})]

\* GeneralSuggestionModel.get_all_score_categories: the projection query
\* with distinct=True yields one entity per distinct score_category; the
\* returned list is a bag, category -> number of occurrences.
get_all_score_categories(s) ==
    [c \in {m.score_category : m \in AllModels(s)} |-> 1]

\* An export that also takes the suggestions the user reviewed. Used to
\* show that C18 depends on the author filter.
export_data_IncludesReviewed(s, user_id) ==
    LET suggestion_models ==
            {m \in get_all(s) :
                m.author_id = user_id \/ m.final_reviewer_id = user_id}
    IN
    [i \in {m.id : m \in suggestion_models} |->
        [suggestion_type |-> s[i].suggestion_type,
         target_type |-> s[i].target_type,
         target_id |-> s[i].target_id,
         target_version_at_submission |-> s[i].target_version_at_submission,
         status |-> s[i].status,
         change_cmd |-> s[i].change_cmd]]

\* An export whose entries also carry the author. Used to show that C19
\* depends on the keys export_data writes.
export_data_WithAuthor(s, user_id) ==
    LET suggestion_models == {m \in get_all(s) : m.author_id = user_id} IN
    [i \in {m.id : m \in suggestion_models} |->
        [suggestion_type |-> s[i].suggestion_type,
         target_type |-> s[i].target_type,
         target_id |-> s[i].target_id,
         target_version_at_submission |-> s[i].target_version_at_submission,
         status |-> s[i].status,
         author_id |-> s[i].author_id,
         change_cmd |-> s[i].change_cmd]]

\* GeneralSuggestionModel.export_data: suggestion id -> exported fields.
export_data(s, user_id) ==
    LET suggestion_models == {m \in get_all(s) : m.author_id = user_id} IN
    [i \in {m.id : m \in suggestion_models} |->
        [suggestion_type |-> s[i].suggestion_type,
         target_type |-> s[i].target_type,
         target_id |-> s[i].target_id,
         target_version_at_submission |-> s[i].target_version_at_submission,
         status |-> s[i].status,
         change_cmd |-> s[i].change_cmd]]

-----------------------------------------------------------------------------
(* Calls issued one after the other.                                       *)

Idle == [op |-> "idle", args |-> None, result |-> None, error |-> None]

Call(op, args, result, error) ==
    [op |-> op, args |-> args, result |-> result, error |-> error]

\* A query method: it raises, or returns what fetch(limit) yields.
Fetched(op, args, out) ==
    IF out.error # None
    THEN last' = Call(op, args, None, out.error)
    ELSE \E r \in fetch(out.query, DEFAULT_QUERY_LIMIT) :
            last' = Call(op, args, r, None)

Procs == {1, 2}

Init ==
    /\ store = <<>>
    /\ last = Idle
    /\ now = 0
    /\ pc = [p \in Procs |-> "start"]
    /\ req = [p \in Procs |-> None]
    /\ env = None
    /\ cut = None

Create(inputs) ==
    /\ last.op = "idle"
    /\ \E a \in inputs, thread_id \in SuggestionIds :
         LET out == create(store, a, thread_id, now) IN
         /\ store' = out.store
         /\ last' = Call("create", [thread_id |-> thread_id, fields |-> a],
                         None, out.error)
    /\ UNCHANGED <<now, pc, req, env, cut>>

QuerySuggestions(inputs) ==
    /\ last.op = "idle"
    /\ \E q \in inputs :
         Fetched("query_suggestions", q, query_suggestions(store, q))
    /\ UNCHANGED <<store, now, pc, req, env, cut>>

GetInReviewSuggestionsInScoreCategories(categories, users) ==
    /\ last.op = "idle"
    /\ \E c \in categories, u \in users :
         Fetched("get_in_review_suggestions_in_score_categories",
                 [score_categories |-> c, user_id |-> u],
                 get_in_review_suggestions_in_score_categories(store, c, u))
    /\ UNCHANGED <<store, now, pc, req, env, cut>>

GetInReviewSuggestionsOfSuggestionType(types, users) ==
    /\ last.op = "idle"
    /\ \E t \in types, u \in users :
         Fetched("get_in_review_suggestions_of_suggestion_type",
                 [suggestion_type |-> t, user_id |-> u],
                 get_in_review_suggestions_of_suggestion_type(store, t, u))
    /\ UNCHANGED <<store, now, pc, req, env, cut>>

GetUserCreatedSuggestionsOfSuggestionType(types, users) ==
    /\ last.op = "idle"
    /\ \E t \in types, u \in users :
         Fetched("get_user_created_suggestions_of_suggestion_type",
                 [suggestion_type |-> t, user_id |-> u],
                 get_user_created_suggestions_of_suggestion_type(store, t, u))
    /\ UNCHANGED <<store, now, pc, req, env, cut>>

GetAllStaleSuggestions ==
    /\ last.op = "idle"
    /\ \E threshold \in ThresholdInputs :
         last' = Call("get_all_stale_suggestions", threshold,
                      get_all_stale_suggestions(store, now, threshold), None)
    /\ UNCHANGED <<store, now, pc, req, env, cut>>

GetAllScoreCategories ==
    /\ last.op = "idle"
    /\ last' = Call("get_all_score_categories", None,
                    get_all_score_categories(store), None)
    /\ UNCHANGED <<store, now, pc, req, env, cut>>

ExportData(users) ==
    /\ last.op = "idle"
    /\ \E u \in users :
         last' = Call("export_data", u, export_data(store, u), None)
    /\ UNCHANGED <<store, now, pc, req, env, cut>>

HasReferenceToUserId(users) ==
    /\ last.op = "idle"
    /\ \E u \in users :
         last' = Call("has_reference_to_user_id", u,
                      has_reference_to_user_id(store, u), None)
    /\ UNCHANGED <<store, now, pc, req, env, cut>>

\* The caller takes the outcome of the call.
Return ==
    /\ last.op # "idle"
    /\ last' = Idle
    /\ UNCHANGED <<store, now, pc, req, env, cut>>

\* Time passes between two calls.
Tick ==
    /\ last.op = "idle"
    /\ \E t \in ClockValues :
         /\ t > now
         /\ now' = t
    /\ UNCHANGED <<store, last, pc, req, env, cut>>

\* Calls on the datastore with the clock standing still.
Next ==
    \/ Create(CreateInputs)
    \/ QuerySuggestions(QueryInputs)
    \/ GetInReviewSuggestionsInScoreCategories(ScoreCategoryInputs, UserInputs)
    \/ GetInReviewSuggestionsOfSuggestionType(SuggestionTypeInputs, UserInputs)
    \/ GetUserCreatedSuggestionsOfSuggestionType(SuggestionTypeInputs,
                                                 UserInputs)
    \/ GetAllScoreCategories
    \/ ExportData(UserInputs)
    \/ HasReferenceToUserId(UserInputs)
    \/ Return

Spec == Init /\ [][Next]_vars

\* Every operation, with time passing between the calls.
NextClock ==
    \/ Create(ClockCreateInputs)
    \/ QuerySuggestions(ClockQueryInputs)
    \/ GetInReviewSuggestionsInScoreCategories(ClockCategoryInputs, UserIds)
    \/ GetInReviewSuggestionsOfSuggestionType(ClockTypeInputs, UserIds)
    \/ GetUserCreatedSuggestionsOfSuggestionType(ClockTypeInputs, UserIds)
    \/ GetAllStaleSuggestions
    \/ GetAllScoreCategories
    \/ ExportData(UserIds)
    \/ HasReferenceToUserId(UserIds)
    \/ Return
    \/ Tick

SpecClock == Init /\ [][NextClock]_vars

-----------------------------------------------------------------------------
(* Concurrent create calls: each request handler runs create once; the     *)
(* get_by_id and the put are separate datastore calls and create runs      *)
(* outside a transaction, so calls of other handlers come between them.    *)

\* Handler p runs `if cls.get_by_id(instance_id): raise ...`.
CreateCheck(p) ==
    /\ pc[p] = "start"
    /\ \E a \in RaceInputs, thread_id \in SuggestionIds :
         IF CreateFindsDuplicate(store, thread_id)
         THEN /\ pc' = [pc EXCEPT ![p] = "done"]
              /\ req' = [req EXCEPT ![p] = [thread_id |-> thread_id,
                                            fields |-> a,
                                            error |-> "DuplicateId"]]
         ELSE /\ pc' = [pc EXCEPT ![p] = "checked"]
              /\ req' = [req EXCEPT ![p] = [thread_id |-> thread_id,
                                            fields |-> a,
                                            error |-> None]]
    /\ UNCHANGED <<store, last, now, env, cut>>

\* Handler p runs `cls(id=instance_id, ...).put()`.
CreatePut(p) ==
    /\ pc[p] = "checked"
    /\ LET out == CreateWrites(store, req[p].fields, req[p].thread_id, now) IN
         /\ store' = out.store
         /\ req' = [req EXCEPT ![p].error = out.error]
    /\ pc' = [pc EXCEPT ![p] = "done"]
    /\ UNCHANGED <<last, now, env, cut>>

NextRace ==
    \/ \E p \in Procs : CreateCheck(p)
    \/ \E p \in Procs : CreatePut(p)

SpecRace == Init /\ [][NextRace]_vars

-----------------------------------------------------------------------------
(* Properties of create.                                                   *)

\* A step in which a call of `op` is issued and runs to its end.
Calls(op) == last.op = "idle" /\ last'.op = op

\* The nine properties of a stored instance equal the arguments a.
StoredAsGiven(m, a) ==
    /\ m.suggestion_type = a.suggestion_type
    /\ m.target_type = a.target_type
    /\ m.target_id = a.target_id
    /\ m.target_version_at_submission = a.target_version_at_submission
    /\ m.status = a.status
    /\ m.author_id = a.author_id
    /\ m.final_reviewer_id = a.final_reviewer_id
    /\ m.change_cmd = a.change_cmd
    /\ m.score_category = a.score_category

\* The enum-valued arguments are in their choice sets.
EnumsInChoices(a) ==
    /\ a.suggestion_type \in SUGGESTION_TYPE_CHOICES
    /\ a.target_type \in TARGET_TYPE_CHOICES
    /\ a.status \in STATUS_CHOICES

\* C1: create with an id that is already in the store raises the
\* duplicate-id error and leaves the store exactly as it was: the first
\* record keeps every field and no record is added.
C1_DuplicateIdFailsAndKeepsStore ==
    [][(Calls("create") /\ last'.args.thread_id \in DOMAIN store)
           => (last'.error = "DuplicateId" /\ store' = store)]_vars

\* C1 witness: a create was refused for an id whose stored record differs
\* from the arguments of the refused call.
C1_Witness ==
    /\ last.op = "create"
    /\ last.error = "DuplicateId"
    /\ last.args.thread_id \in DOMAIN store
    /\ ~StoredAsGiven(store[last.args.thread_id], last.args.fields)

\* C2: of two concurrent create calls with the same id at most one
\* returns without error.
C2_AtMostOneConcurrentCreateSucceeds ==
    \A p, q \in Procs :
        (/\ p # q
         /\ pc[p] = "done"
         /\ pc[q] = "done"
         /\ req[p].thread_id = req[q].thread_id)
            => ~(req[p].error = None /\ req[q].error = None)

\* C3: create with a fresh id and enum arguments from the choice sets
\* returns without error and adds exactly one record, which get_by_id
\* returns with the nine properties equal to the arguments; every other
\* record is unchanged.
C3_CreateAddsExactlyTheGivenRecord ==
    [][(/\ Calls("create")
        /\ last'.args.thread_id \notin DOMAIN store
        /\ EnumsInChoices(last'.args.fields))
           => (/\ last'.error = None
               /\ DOMAIN store' = DOMAIN store \cup {last'.args.thread_id}
               /\ Len(get_by_id(store', last'.args.thread_id)) = 1
               /\ get_by_id(store', last'.args.thread_id)[1].id
                      = last'.args.thread_id
               /\ StoredAsGiven(get_by_id(store', last'.args.thread_id)[1],
                                last'.args.fields)
               /\ \A i \in DOMAIN store : store'[i] = store[i])]_vars

\* C3 witness: a create succeeded next to a record that was already there.
C3_Witness ==
    /\ last.op = "create"
    /\ last.error = None
    /\ Cardinality(DOMAIN store) = 2
    /\ StoredAsGiven(store[last.args.thread_id], last.args.fields)

\* C4 as claimed: right after a successful create the new record's status
\* is IN_REVIEW.
C4_CreatedInReview ==
    (last.op = "create" /\ last.error = None)
        => store[last.args.thread_id].status = STATUS_IN_REVIEW

\* C4 as amended: right after a successful create the new record's status
\* is the status argument, any member of STATUS_CHOICES.
C4_CreatedWithGivenStatus ==
    (last.op = "create" /\ last.error = None)
        => /\ store[last.args.thread_id].status = last.args.fields.status
           /\ last.args.fields.status \in STATUS_CHOICES

\* C4 witness: a record was created directly in ACCEPTED.
C4_Witness ==
    /\ last.op = "create"
    /\ last.error = None
    /\ last.args.fields.status = STATUS_ACCEPTED
    /\ store[last.args.thread_id].status = STATUS_ACCEPTED

\* C5 as claimed: every stored record in IN_REVIEW has no final reviewer.
C5_InReviewHasNoFinalReviewer ==
    \A i \in DOMAIN store :
        store[i].status = STATUS_IN_REVIEW
            => store[i].final_reviewer_id = None

\* C5 as amended: a record created in IN_REVIEW holds the
\* final_reviewer_id argument of its create call, set or unset.
C5_InReviewKeepsGivenFinalReviewer ==
    (/\ last.op = "create"
     /\ last.error = None
     /\ last.args.fields.status = STATUS_IN_REVIEW)
        => store[last.args.thread_id].final_reviewer_id
               = last.args.fields.final_reviewer_id

\* C5 witness: a record was created in IN_REVIEW with a final reviewer.
C5_Witness ==
    /\ last.op = "create"
    /\ last.error = None
    /\ store[last.args.thread_id].status = STATUS_IN_REVIEW
    /\ store[last.args.thread_id].final_reviewer_id = "author_2"

\* C6: no operation deletes or changes a stored record, and every
\* operation other than create leaves the whole store unchanged.
C6_RecordsAreNeverDeletedOrMutated ==
    [][/\ \A i \in DOMAIN store :
              i \in DOMAIN store' /\ store'[i] = store[i]
       /\ last'.op # "create" => store' = store]_vars

\* C6 witness: the stale-suggestion query returned a record while an
\* ACCEPTED record was in the store.
C6_Witness ==
    /\ last.op = "get_all_stale_suggestions"
    /\ last.result # {}
    /\ \E i \in DOMAIN store : store[i].status = STATUS_ACCEPTED

-----------------------------------------------------------------------------
(* Properties of the queries.                                              *)

\* Pair i names a field outside the allow-list.
Disallowed(q, i) == q[i][1] \notin ALLOWED_QUERY_FIELDS

\* Pair i gives an enum-valued field a value outside its choice set.
BadChoice(q, i) ==
    /\ q[i][1] \in ChoiceFields
    /\ q[i][2] \notin Choices(q[i][1])

\* The first pair of q that is disallowed or has a bad choice.
FirstOffender(q) ==
    CHOOSE i \in 1 .. Len(q) :
        /\ Disallowed(q, i) \/ BadChoice(q, i)
        /\ \A j \in 1 .. (i - 1) : ~(Disallowed(q, j) \/ BadChoice(q, j))

\* The error the first offending pair of q raises.
FirstError(q) ==
    IF Disallowed(q, FirstOffender(q)) THEN "InvalidField"
    ELSE "InvalidChoice"

\* The stored records that equal the value of every pair of q.
Matching(q) ==
    {m \in {store[i] : i \in DOMAIN store} :
        \A i \in 1 .. Len(q) : m[q[i][1]] = q[i][2]}

\* C7 as claimed: a list with a disallowed field always fails with the
\* invalid-field error.
C7_DisallowedFieldRaisesInvalidField ==
    (/\ last.op = "query_suggestions"
     /\ \E i \in 1 .. Len(last.args) : Disallowed(last.args, i))
        => last.error = "InvalidField"

\* C7 as amended: a list with a disallowed field always fails and returns
\* nothing; the error is the invalid-field error unless a pair before the
\* first disallowed one has a bad choice, and then the invalid-choice error.
C7_DisallowedFieldAlwaysFails ==
    (/\ last.op = "query_suggestions"
     /\ \E i \in 1 .. Len(last.args) : Disallowed(last.args, i))
        => /\ last.error \in {"InvalidField", "InvalidChoice"}
           /\ last.error = FirstError(last.args)

\* C7 witness: the disallowed pair came second, after a valid pair, with
\* records in the store.
C7_Witness ==
    /\ last.op = "query_suggestions"
    /\ Len(last.args) = 2
    /\ ~Disallowed(last.args, 1) /\ ~BadChoice(last.args, 1)
    /\ Disallowed(last.args, 2)
    /\ last.error = "InvalidField"
    /\ DOMAIN store # {}

\* C8: for a list of allowed fields with valid values whose matches are no
\* more than the query limit, query_suggestions returns exactly the stored
\* records that equal every pair; with the empty list, all stored records.
C8_QueryReturnsExactlyTheMatches ==
    (/\ last.op = "query_suggestions"
     /\ \A i \in 1 .. Len(last.args) :
            ~Disallowed(last.args, i) /\ ~BadChoice(last.args, i)
     /\ Cardinality(Matching(last.args)) <= DEFAULT_QUERY_LIMIT)
        => /\ last.error = None
           /\ last.result = Matching(last.args)

\* C8 witness: two pairs selected one of two stored records.
C8_Witness ==
    /\ last.op = "query_suggestions"
    /\ Len(last.args) = 2
    /\ last.args[1][1] # last.args[2][1]
    /\ last.error = None
    /\ Cardinality(DOMAIN store) = 2
    /\ Cardinality(last.result) = 1

\* The filter of each of the four query operations.
SatisfiesFilter(m) ==
    CASE last.op = "query_suggestions" ->
            \A i \in 1 .. Len(last.args) : m[last.args[i][1]] = last.args[i][2]
      [] last.op = "get_in_review_suggestions_in_score_categories" ->
            /\ m.status = STATUS_IN_REVIEW
            /\ m.score_category \in last.args.score_categories
            /\ m.author_id # last.args.user_id
      [] last.op = "get_in_review_suggestions_of_suggestion_type" ->
            /\ m.status = STATUS_IN_REVIEW
            /\ m.suggestion_type = last.args.suggestion_type
            /\ m.author_id # last.args.user_id
      [] last.op = "get_user_created_suggestions_of_suggestion_type" ->
            /\ m.status = STATUS_IN_REVIEW
            /\ m.suggestion_type = last.args.suggestion_type
            /\ m.author_id = last.args.user_id

QueryOps ==
    {"query_suggestions",
     "get_in_review_suggestions_in_score_categories",
     "get_in_review_suggestions_of_suggestion_type",
     "get_user_created_suggestions_of_suggestion_type"}

\* C9: whatever each of the four query operations returns has at most
\* DEFAULT_QUERY_LIMIT records, each of them a stored record that
\* satisfies the operation's filter.
C9_QueriesAreBoundedAndSound ==
    (last.op \in QueryOps /\ last.error = None)
        => /\ Cardinality(last.result) <= DEFAULT_QUERY_LIMIT
           /\ \A m \in last.result :
                  /\ m.id \in DOMAIN store
                  /\ store[m.id] = m
                  /\ SatisfiesFilter(m)

\* C9 witness: a reviewer-routing query returned DEFAULT_QUERY_LIMIT
\* records although more stored records satisfy its filter.
C9_Witness ==
    /\ last.op = "get_in_review_suggestions_in_score_categories"
    /\ last.error = None
    /\ Cardinality(last.result) = DEFAULT_QUERY_LIMIT
    /\ \E i \in DOMAIN store :
           store[i] \notin last.result /\ SatisfiesFilter(store[i])

\* C10 as claimed: a list with a bad choice for an enum-valued field
\* always fails with the invalid-choice error.
C10_BadChoiceRaisesInvalidChoice ==
    (/\ last.op = "query_suggestions"
     /\ \E i \in 1 .. Len(last.args) : BadChoice(last.args, i))
        => last.error = "InvalidChoice"

\* C10 as amended: a list with a bad choice for an enum-valued field
\* never returns a result; it fails with the invalid-choice error unless a
\* pair before the first bad choice names a disallowed field, and then
\* with the invalid-field error.
C10_BadChoiceAlwaysFails ==
    (/\ last.op = "query_suggestions"
     /\ \E i \in 1 .. Len(last.args) : BadChoice(last.args, i))
        => /\ last.error # None
           /\ (last.error = "InvalidChoice"
                  <=> \A i \in 1 .. Len(last.args) :
                          Disallowed(last.args, i)
                              => \E j \in 1 .. (i - 1) :
                                     BadChoice(last.args, j))

\* C10 witness: the bad choice came second, after a valid pair, and no
\* stored record could have matched it.
C10_Witness ==
    /\ last.op = "query_suggestions"
    /\ Len(last.args) = 2
    /\ ~Disallowed(last.args, 1) /\ ~BadChoice(last.args, 1)
    /\ BadChoice(last.args, 2)
    /\ last.error = "InvalidChoice"
    /\ DOMAIN store # {}

-----------------------------------------------------------------------------
(* Properties of the routing queries.                                      *)

\* The stored records.
Stored == {store[i] : i \in DOMAIN store}

\* The stored records in review with a score category in S and an author
\* other than u.
ReviewableInCategories(S, u) ==
    {m \in Stored :
        /\ m.status = STATUS_IN_REVIEW
        /\ m.score_category \in S
        /\ m.author_id # u}

\* The stored records in review of suggestion type t with an author other
\* than u.
ReviewableOfType(t, u) ==
    {m \in Stored :
        /\ m.status = STATUS_IN_REVIEW
        /\ m.suggestion_type = t
        /\ m.author_id # u}

\* The stored records in review of suggestion type t with author u.
CreatedByUserOfType(t, u) ==
    {m \in Stored :
        /\ m.status = STATUS_IN_REVIEW
        /\ m.suggestion_type = t
        /\ m.author_id = u}

\* C11: for a non-empty collection S of score categories and a user u,
\* get_in_review_suggestions_in_score_categories(S, u) returns no record
\* authored by u and no record out of review, and when the matches are no
\* more than the query limit it returns exactly the stored records in
\* review with a score category in S and an author other than u.
C11_CategoryRoutingReturnsExactlyTheMatches ==
    (/\ last.op = "get_in_review_suggestions_in_score_categories"
     /\ last.args.score_categories # {})
        => /\ last.error = None
           /\ \A m \in last.result :
                  m.author_id # last.args.user_id
                      /\ m.status = STATUS_IN_REVIEW
           /\ Cardinality(ReviewableInCategories(
                  last.args.score_categories, last.args.user_id))
                      <= DEFAULT_QUERY_LIMIT
                  => last.result = ReviewableInCategories(
                         last.args.score_categories, last.args.user_id)

\* C11 witness: the query returned a record while leaving out a record in
\* review, in one of the categories, that the caller authored.
C11_Witness ==
    /\ last.op = "get_in_review_suggestions_in_score_categories"
    /\ last.error = None
    /\ last.result # {}
    /\ \E m \in Stored :
           /\ m.status = STATUS_IN_REVIEW
           /\ m.score_category \in last.args.score_categories
           /\ m.author_id = last.args.user_id
           /\ m \notin last.result

\* C12: get_in_review_suggestions_in_score_categories with an empty
\* collection of categories fails with the empty-input error, for every
\* user and store; it returns no list.
C12_EmptyCategoriesRaise ==
    (/\ last.op = "get_in_review_suggestions_in_score_categories"
     /\ last.args.score_categories = {})
        => last.error = "EmptyInput"

\* C12 witness: the call with no categories failed although the store
\* holds a record in review that the caller did not author.
C12_Witness ==
    /\ last.op = "get_in_review_suggestions_in_score_categories"
    /\ last.args.score_categories = {}
    /\ last.error = "EmptyInput"
    /\ \E m \in Stored :
           m.status = STATUS_IN_REVIEW /\ m.author_id # last.args.user_id

\* C13: for a suggestion type t and a user u, when the matches are no more
\* than the query limit, get_in_review_suggestions_of_suggestion_type(t, u)
\* returns exactly the stored records in review of type t with an author
\* other than u.
C13_TypeRoutingReturnsExactlyTheMatches ==
    (/\ last.op = "get_in_review_suggestions_of_suggestion_type"
     /\ last.args.suggestion_type \in SUGGESTION_TYPE_CHOICES
     /\ Cardinality(ReviewableOfType(
            last.args.suggestion_type, last.args.user_id))
                <= DEFAULT_QUERY_LIMIT)
        => /\ last.error = None
           /\ last.result = ReviewableOfType(
                  last.args.suggestion_type, last.args.user_id)

\* C13 witness: the query returned one of two stored records of the type
\* and left out the one that is not in review.
C13_Witness ==
    /\ last.op = "get_in_review_suggestions_of_suggestion_type"
    /\ last.error = None
    /\ Cardinality(last.result) = 1
    /\ \E m \in Stored :
           /\ m.suggestion_type = last.args.suggestion_type
           /\ m.author_id # last.args.user_id
           /\ m.status # STATUS_IN_REVIEW

-----------------------------------------------------------------------------
(* Properties of get_all_score_categories and get_all_stale_suggestions.   *)

\* C15: get_all_score_categories returns the score_category values of all
\* stored records, whatever their status, each distinct value once.
C15_ScoreCategoriesAreAllAndDistinct ==
    last.op = "get_all_score_categories"
        => /\ DOMAIN last.result = {m.score_category : m \in Stored}
           /\ \A c \in DOMAIN last.result : last.result[c] = 1

\* C15 witness: two stored records of different status share their score
\* category, and the call returned that category.
C15_Witness ==
    /\ last.op = "get_all_score_categories"
    /\ Cardinality(DOMAIN last.result) = 1
    /\ \E i, j \in DOMAIN store :
           /\ store[i].score_category = store[j].score_category
           /\ store[i].status = STATUS_IN_REVIEW
           /\ store[j].status # STATUS_IN_REVIEW

\* Milliseconds since the last write of m.
Age(m) == now - m.last_updated

\* C16 as claimed: the stale query returns every stored record in review
\* whose age is at least the threshold, the age equal to the threshold
\* included.
C16_StaleFromThresholdOn ==
    last.op = "get_all_stale_suggestions"
        => \A m \in Stored :
               (m.status = STATUS_IN_REVIEW /\ Age(m) >= last.args)
                   => m \in last.result

\* C16 as amended: the stale query returns every stored record in review
\* whose age is strictly greater than the threshold, however many there
\* are; with threshold 0, every record in review last written before now.
C16_StaleBeyondThreshold ==
    last.op = "get_all_stale_suggestions"
        => \A m \in Stored :
               (m.status = STATUS_IN_REVIEW /\ Age(m) > last.args)
                   => m \in last.result

\* C16 witness: under the seven-day threshold the query returned a record
\* and left out a record in review whose age equals the threshold.
C16_Witness ==
    /\ last.op = "get_all_stale_suggestions"
    /\ last.args = THRESHOLD_TIME_BEFORE_ACCEPT_IN_MSECS
    /\ last.result # {}
    /\ \E m \in Stored :
           /\ m.status = STATUS_IN_REVIEW
           /\ Age(m) = last.args
           /\ m \notin last.result

\* C17: the stale query returns no record that is accepted or rejected and
\* no record whose age is less than the threshold.
C17_StaleOnlyInReviewAndOld ==
    last.op = "get_all_stale_suggestions"
        => \A m \in last.result :
               /\ m.status \notin {STATUS_ACCEPTED, STATUS_REJECTED}
               /\ ~(Age(m) < last.args)

\* C17 witness: the query returned a record and left out another one,
\* which is old but accepted or rejected, or in review but younger than
\* the threshold.
C17_Witness ==
    /\ last.op = "get_all_stale_suggestions"
    /\ last.result # {}
    /\ \E m \in Stored \ last.result :
           \/ m.status \in {STATUS_ACCEPTED, STATUS_REJECTED}
                  /\ Age(m) > last.args
           \/ m.status = STATUS_IN_REVIEW /\ Age(m) < last.args

-----------------------------------------------------------------------------
(* Properties of export_data.                                              *)

\* The keys of an exported entry.
ExportedFields ==
    {"suggestion_type", "target_type", "target_id",
     "target_version_at_submission", "status", "change_cmd"}

\* C18: export_data(u) returns without error a mapping whose keys are the
\* ids of the stored records authored by u: the empty mapping when u
\* authored nothing, and no key for a record that names u only as final
\* reviewer.
C18_ExportKeysAreTheAuthoredIds ==
    last.op = "export_data"
        => /\ last.error = None
           /\ DOMAIN last.result
                  = {m.id : m \in {n \in Stored : n.author_id = last.args}}

\* C18 witness: the export of a user returned one entry while another
\* stored record names the user as final reviewer only.
C18_Witness ==
    /\ last.op = "export_data"
    /\ Cardinality(DOMAIN last.result) = 1
    /\ \E m \in Stored :
           /\ m.final_reviewer_id = last.args
           /\ m.author_id # last.args
           /\ m.id \notin DOMAIN last.result

\* C19: every entry of the mapping export_data returns has exactly the six
\* keys suggestion_type, target_type, target_id,
\* target_version_at_submission, status and change_cmd, each with the
\* stored record's value; author_id, final_reviewer_id and score_category
\* are in no entry.
C19_ExportEntriesHaveTheSixFields ==
    last.op = "export_data"
        => \A i \in DOMAIN last.result :
               /\ DOMAIN last.result[i] = ExportedFields
               /\ \A f \in ExportedFields : last.result[i][f] = store[i][f]
               /\ {"author_id", "final_reviewer_id", "score_category"}
                      \cap DOMAIN last.result[i] = {}

\* C19 witness: the export of an author returned the entry of an accepted
\* record.
C19_Witness ==
    /\ last.op = "export_data"
    /\ \E i \in DOMAIN last.result :
           /\ last.result[i].status = STATUS_ACCEPTED
           /\ store[i].author_id = last.args

-----------------------------------------------------------------------------
(* The shape of score_category.                                            *)

-----------------------------------------------------------------------------
(* The score types and the delimiter.                                      *)

\* Subcategories a score category is built with: plain, empty, and one
\* that itself contains the delimiter.
Subcategories ==
    {<<"E", "n">>, <<>>, <<"A", SCORE_CATEGORY_DELIMITER, "l">>}

\* The part of c before its first delimiter: c.split(delimiter)[0].
ScoreTypeOf(c) ==
    LET k == CHOOSE j \in 1 .. Len(c) :
                 /\ c[j] = SCORE_CATEGORY_DELIMITER
                 /\ \A h \in 1 .. (j - 1) : c[h] # SCORE_CATEGORY_DELIMITER
    IN  SubSeq(c, 1, k - 1)

\* C21: no element of SCORE_TYPE_CHOICES contains the delimiter, so a
\* score category built as score type + delimiter + subcategory, split at
\* its first delimiter, gives back the score type; this holds for the
\* categories in the store that were built that way.
C21_ScoreTypeIsRecoveredAtFirstDelimiter ==
    /\ \A t \in SCORE_TYPE_CHOICES :
           \A k \in 1 .. Len(t) : t[k] # SCORE_CATEGORY_DELIMITER
    /\ \A t \in SCORE_TYPE_CHOICES, sub \in Subcategories :
           ScoreTypeOf(t \o <<SCORE_CATEGORY_DELIMITER>> \o sub) = t
    /\ \A i \in DOMAIN store :
           \A t \in SCORE_TYPE_CHOICES, sub \in Subcategories :
               store[i].score_category
                   = t \o <<SCORE_CATEGORY_DELIMITER>> \o sub
                   => ScoreTypeOf(store[i].score_category) = t

\* C21 witness: a stored score category built from 'translation' splits
\* into 'translation' at its first delimiter.
C21_Witness ==
    \E i \in DOMAIN store :
        /\ store[i].score_category
               = SCORE_TYPE_TRANSLATION \o <<SCORE_CATEGORY_DELIMITER>>
                     \o <<"E", "n">>
        /\ ScoreTypeOf(store[i].score_category) = SCORE_TYPE_TRANSLATION

-----------------------------------------------------------------------------
(* Validation in create, and has_reference_to_user_id.                     *)

\* C22: create with a fresh id and a suggestion_type, target_type or
\* status outside its choice set raises the invalid-choice error and
\* leaves the store as it was; every stored record has its three enum
\* fields within their choice sets.
C22_InvalidChoiceCreatePersistsNothing ==
    /\ [][(/\ Calls("create")
           /\ last'.args.thread_id \notin DOMAIN store
           /\ ~EnumsInChoices(last'.args.fields))
              => (last'.error = "InvalidChoice" /\ store' = store)]_vars
    /\ [](\A i \in DOMAIN store : EnumsInChoices(store[i]))

\* C22 witness: a create with a fresh id was refused for an invalid
\* choice while the store holds a record.
C22_Witness ==
    /\ last.op = "create"
    /\ last.error = "InvalidChoice"
    /\ ~EnumsInChoices(last.args.fields)
    /\ last.args.thread_id \notin DOMAIN store
    /\ DOMAIN store # {}

\* C23: has_reference_to_user_id(u) is true exactly when some stored
\* record has u as author_id or as final_reviewer_id.
C23_HasReferenceIffAuthorOrReviewer ==
    last.op = "has_reference_to_user_id"
        => (last.result
               <=> \E m \in Stored :
                       m.author_id = last.args
                           \/ m.final_reviewer_id = last.args)

\* C23 witness: the check is true for a user who authored nothing and is
\* the final reviewer of a stored record.
C23_Witness ==
    /\ last.op = "has_reference_to_user_id"
    /\ last.result
    /\ \A m \in Stored : m.author_id # last.args
    /\ \E m \in Stored : m.final_reviewer_id = last.args

-----------------------------------------------------------------------------
(* Relations between queries.                                              *)

\* The stored records in review of suggestion type t.
InReviewOfType(t) ==
    {m \in Stored : m.status = STATUS_IN_REVIEW /\ m.suggestion_type = t}

\* The values the query limit is considered at.
QueryLimits == 1 .. MaxSuggestions

PairsOf(q) == {q[i] : i \in 1 .. Len(q)}

\* The lists of at most MaxQueryLen pairs with the same pairs as q, in any
\* order and with any repetition.
Rearrangements(q) ==
    {r \in UNION {[1 .. n -> PairsOf(q)] : n \in 0 .. MaxQueryLen} :
        PairsOf(r) = PairsOf(q)}

\* C30: for a list of allowed fields with valid values whose matches are
\* no more than the query limit, query_suggestions returns the same set
\* for every list with the same pairs, in any order and with pairs
\* repeated; a list with two different values for one field returns the
\* empty result.
C30_QueryIgnoresOrderAndRepetition ==
    (/\ last.op = "query_suggestions"
     /\ \A i \in 1 .. Len(last.args) :
            ~Disallowed(last.args, i) /\ ~BadChoice(last.args, i)
     /\ Cardinality(Matching(last.args)) <= DEFAULT_QUERY_LIMIT)
        => /\ last.error = None
           /\ \A r \in Rearrangements(last.args) :
                  LET out == query_suggestions(store, r) IN
                  /\ out.error = None
                  /\ fetch(out.query, DEFAULT_QUERY_LIMIT) = {last.result}
           /\ (\E i, j \in 1 .. Len(last.args) :
                   /\ last.args[i][1] = last.args[j][1]
                   /\ last.args[i][2] # last.args[j][2])
                  => last.result = {}

\* C30 witness: a list with two values for one field returned nothing
\* although each of the two pairs alone matches a stored record.
C30_Witness ==
    /\ last.op = "query_suggestions"
    /\ Len(last.args) = 2
    /\ last.args[1][1] = last.args[2][1]
    /\ last.args[1][2] # last.args[2][2]
    /\ last.error = None
    /\ last.result = {}
    /\ \A i \in 1 .. 2 :
           \E m \in Stored : m[last.args[i][1]] = last.args[i][2]

-----------------------------------------------------------------------------
(* scripts/cut_release_or_hotfix_branch.py: cutting a release or hotfix    *)
(* branch. Versions, branch names, command output and the release tag are  *)
(* Python strings inspected by substring and regular expression tests, so  *)
(* they are sequences of one-character strings.                            *)

\* Bound on the digits of the versions drawn (9 is drawn as well).
MaxDigit == 2

\* Bound on the --hotfix_number argument and on existing hotfix branches.
MaxHotfixNumber == 2

\* Bound on the times the confirmation prompt is shown in one run.
MaxPrompts == 2

DigitChars == <<"0", "1", "2", "3", "4", "5", "6", "7", "8", "9">>

\* The regular expression class \d.
IsDigit(c) == \E i \in 1 .. 10 : DigitChars[i] = c

DigitValue(c) == CHOOSE n \in 0 .. 9 : DigitChars[n + 1] = c

\* int(s) for a non-empty string of digits.
RECURSIVE int(_)
int(s) ==
    IF Len(s) = 1
    THEN DigitValue(s[1])
    ELSE 10 * int(SubSeq(s, 1, Len(s) - 1)) + DigitValue(s[Len(s)])

\* '%s' % n for a natural number n.
RECURSIVE str(_)
str(n) ==
    IF n < 10
    THEN <<DigitChars[n + 1]>>
    ELSE str(n \div 10) \o <<DigitChars[(n % 10) + 1]>>

\* needle in hay, for Python strings.
IsSubstring(needle, hay) ==
    \E k \in 0 .. (Len(hay) - Len(needle)) :
        SubSeq(hay, k + 1, k + Len(needle)) = needle

Whitespace == {" ", "\t", "\n"}

\* line.lstrip().rstrip()
strip(line) ==
    LET kept == {i \in 1 .. Len(line) : line[i] \notin Whitespace} IN
    IF kept = {}
    THEN <<>>
    ELSE SubSeq(line,
                CHOOSE i \in kept : \A j \in kept : i <= j,
                CHOOSE i \in kept : \A j \in kept : i >= j)

\* s[s.rfind('-') + 1:]
AfterLastDash(s) ==
    LET dashes == {i \in 1 .. Len(s) : s[i] = "-"} IN
    IF dashes = {}
    THEN s
    ELSE SubSeq(s, (CHOOSE i \in dashes : \A j \in dashes : i >= j) + 1,
                Len(s))

RELEASE_BRANCH_TYPE == <<"r", "e", "l", "e", "a", "s", "e">>

HOTFIX_BRANCH_TYPE == <<"h", "o", "t", "f", "i", "x">>

AFFIRMATIVE_CONFIRMATIONS == {"y", "ye", "yes"}

DEVELOP == <<"d", "e", "v", "e", "l", "o", "p">>

\* The alias of the remote oppia repository.
UPSTREAM == <<"u", "p", "s", "t", "r", "e", "a", "m">>

REFS_HEADS == <<"r", "e", "f", "s", "/", "h", "e", "a", "d", "s", "/">>

\* The prefix `git branch -a` prints before a remote-tracking branch.
REMOTES == <<"r", "e", "m", "o", "t", "e", "s", "/">>

\* The version string x.y.z.
VersionString(x, y, z) == str(x) \o <<".">> \o str(y) \o <<".">> \o str(z)

\* new_version_type: pattern.match anchors \d\.\d\.\d at the start of the
\* argument only.
new_version_type(arg) ==
    /\ Len(arg) >= 5
    /\ IsDigit(arg[1]) /\ arg[2] = "." /\ IsDigit(arg[3])
    /\ arg[4] = "." /\ IsDigit(arg[5])

NEW_BRANCH_NAME(version, hotfix_number) ==
    IF hotfix_number = 0
    THEN RELEASE_BRANCH_TYPE \o <<"-">> \o version
    ELSE RELEASE_BRANCH_TYPE \o <<"-">> \o version \o <<"-">>
             \o HOTFIX_BRANCH_TYPE \o <<"-">> \o str(hotfix_number)

NEW_BRANCH_TYPE(hotfix_number) ==
    IF hotfix_number = 0 THEN RELEASE_BRANCH_TYPE ELSE HOTFIX_BRANCH_TYPE

\* The output of `git branch`, as its set of lines: the current branch is
\* marked with an asterisk. No string searched for in the output holds a
\* newline, so a substring of the output is a substring of one line.
git_branch_output(e) ==
    {(IF b = e.current THEN <<"*", " ">> ELSE <<" ", " ">>) \o b :
        b \in e.local}

\* The output of `git branch -a`: the local branches, then the
\* remote-tracking branches as remotes/<alias>/<branch>.
git_branch_all_output(e) ==
    git_branch_output(e)
        \cup {<<" ", " ">> \o REMOTES \o UPSTREAM \o <<"/">> \o b :
                 b \in e.tracking}

\* The output of `git ls-remote --heads <alias>`, as its set of lines:
\* an object name, a tab and the ref.
git_ls_remote_output(e) ==
    {<<"0", "\t">> \o REFS_HEADS \o b : b \in e.heads}

\* needle in output, for an output given as its set of lines.
OutputContains(output, needle) ==
    \E line \in output : IsSubstring(needle, line)

\* _verify_target_branch_does_not_already_exist: the exception raised, or
\* None.
_verify_target_branch_does_not_already_exist(e, version, hotfix_number) ==
    IF OutputContains(git_branch_output(e),
                      NEW_BRANCH_NAME(version, hotfix_number))
    THEN "ExistsLocally"
    ELSE IF OutputContains(git_ls_remote_output(e),
                           REFS_HEADS \o NEW_BRANCH_NAME(version, hotfix_number))
    THEN "ExistsOnRemote"
    ELSE None

\* re.match(r'v(\d)\.(\d)\.(\d)', tag)
MatchesReleaseTag(tag) ==
    /\ Len(tag) >= 6
    /\ tag[1] = "v"
    /\ IsDigit(tag[2]) /\ tag[3] = "." /\ IsDigit(tag[4])
    /\ tag[5] = "." /\ IsDigit(tag[6])

\* A version check that does not require the patch number to restart at 0
\* when the minor number grows. Used to show that C26 depends on line 169.
_verify_target_version_is_consistent_with_latest_released_version_AnyPatch(code, tag, version) ==
    IF code # 200
    THEN "FailedToFetch"
    ELSE IF ~MatchesReleaseTag(tag)
    THEN "CouldNotParse"
    ELSE IF tag[2] # version[1]
    THEN "AssertionError"
    ELSE IF tag[4] = version[3]
    THEN IF /\ int(<<version[5]>>) = int(<<tag[6]>>) + 1
            /\ int(<<version[5]>>) < 10
         THEN None
         ELSE "AssertionError"
    ELSE IF int(<<version[3]>>) = int(<<tag[4]>>) + 1
         THEN None
         ELSE "AssertionError"

\* _verify_target_version_is_consistent_with_latest_released_version, for
\* the response code and tag name of the latest release: the exception
\* raised, or None. The groups of both matches are single characters;
\* major and minor are compared as strings, the rest as integers.
_verify_target_version_is_consistent_with_latest_released_version(code, tag, version) ==
    IF code # 200
    THEN "FailedToFetch"
    ELSE IF ~MatchesReleaseTag(tag)
    THEN "CouldNotParse"
    ELSE IF tag[2] # version[1]
    THEN "AssertionError"
    ELSE IF tag[4] = version[3]
    THEN IF /\ int(<<version[5]>>) = int(<<tag[6]>>) + 1
            /\ int(<<version[5]>>) < 10
         THEN None
         ELSE "AssertionError"
    ELSE IF /\ int(<<version[3]>>) = int(<<tag[4]>>) + 1
            /\ int(<<version[5]>>) = 0
         THEN None
         ELSE "AssertionError"

\* re.match('^<alias>/release-<version>-hotfix-\d*$', branch_name): the
\* dots of the version match any character, \d* matches no digit as well.
MatchesHotfixBranchRegex(remote_alias, version, branch_name) ==
    LET prefix == remote_alias \o <<"/">> \o RELEASE_BRANCH_TYPE \o <<"-">>
                      \o version \o <<"-">> \o HOTFIX_BRANCH_TYPE \o <<"-">>
    IN  /\ Len(branch_name) >= Len(prefix)
        /\ \A i \in 1 .. Len(prefix) :
               prefix[i] = "." \/ prefix[i] = branch_name[i]
        /\ \A i \in (Len(prefix) + 1) .. Len(branch_name) :
               IsDigit(branch_name[i])

\* The lines of `git branch -a`, stripped, that the regular expression
\* matches.
HotfixBranchLines(e, remote_alias, version) ==
    {strip(line) : line \in
        {l \in git_branch_all_output(e) :
            MatchesHotfixBranchRegex(remote_alias, version, strip(l))}}

\* last_hotfix_number after the loop, when int() raised on no line.
last_hotfix_number(e, remote_alias, version) ==
    LET numbers == {0} \cup {int(AfterLastDash(b)) :
                                b \in HotfixBranchLines(e, remote_alias, version)}
    IN  CHOOSE n \in numbers : \A k \in numbers : n >= k

\* _verify_hotfix_number_is_one_ahead_of_previous_hotfix_number: the
\* exception raised, or None.
_verify_hotfix_number_is_one_ahead_of_previous_hotfix_number(e, remote_alias, version, hotfix_number) ==
    IF \E b \in HotfixBranchLines(e, remote_alias, version) :
           AfterLastDash(b) = <<>>
    THEN "ValueError"
    ELSE IF hotfix_number = last_hotfix_number(e, remote_alias, version) + 1
    THEN None
    ELSE "AssertionError"

\* The branch the coordinator is asked about (lines 225-233).
branch_to_check(version, hotfix_number) ==
    IF hotfix_number = 0
    THEN DEVELOP
    ELSE IF hotfix_number = 1
    THEN RELEASE_BRANCH_TYPE \o <<"-">> \o version
    ELSE RELEASE_BRANCH_TYPE \o <<"-">> \o version \o <<"-">>
             \o HOTFIX_BRANCH_TYPE \o <<"-">> \o str(hotfix_number - 1)

\* A start point that is the release branch for every hotfix. Used to show
\* that C25 depends on lines 253-256.
branch_to_cut_from_AlwaysRelease(version, hotfix_number) ==
    RELEASE_BRANCH_TYPE \o <<"-">> \o version

\* The start point of a hotfix branch (lines 250-256).
branch_to_cut_from(version, hotfix_number) ==
    IF hotfix_number = 1
    THEN RELEASE_BRANCH_TYPE \o <<"-">> \o version
    ELSE RELEASE_BRANCH_TYPE \o <<"-">> \o version \o <<"-">>
             \o HOTFIX_BRANCH_TYPE \o <<"-">> \o str(hotfix_number - 1)

\* What the coordinator may type at the prompt.
Answers == {"y", "Y", "", "n"}

\* answer.lower(), on Answers.
lower(answer) == IF answer = "Y" THEN "y" ELSE answer

\* A confirmation that goes on whatever is typed. Used to show that C24
\* depends on lines 240-244.
confirm_AnyAnswer(answer) ==
    IF answer = "" THEN "continue" ELSE "break"

\* One round of the confirmation loop (lines 237-244): break, sys.exit()
\* or another round.
confirm(answer) ==
    IF lower(answer) \in AFFIRMATIVE_CONFIRMATIONS
    THEN "break"
    ELSE IF lower(answer) # ""
    THEN "exit"
    ELSE "continue"

\* The versions and release tags a run is drawn from.
Digits == (0 .. MaxDigit) \cup {9}

VersionInputs == {VersionString(x, y, z) : x, y, z \in Digits}

TagInputs ==
    {<<"v">> \o v : v \in VersionInputs}
        \cup {<<"l", "a", "t", "e", "s", "t">>}

CutVersions == {VersionString(1, 2, 1), VersionString(1, 2, 0)}

CutTags == {<<"v">> \o VersionString(1, 2, 0),
            <<"v">> \o VersionString(1, 1, 2)}

ResponseCodes == {200, 404}

\* The hotfix numbers of the branches a repository may already hold.
ExistingHotfixNumbers == 1 .. (MaxHotfixNumber - 1)

\* The local branches a repository may hold besides develop: the release
\* branch, hotfix branches, and branches whose own name starts with the
\* alias of the remote.
LocalBranchInputs(version) ==
    {NEW_BRANCH_NAME(version, 0)}
        \cup {NEW_BRANCH_NAME(version, n) : n \in ExistingHotfixNumbers}
        \cup {UPSTREAM \o <<"/">> \o NEW_BRANCH_NAME(version, n) :
                 n \in ExistingHotfixNumbers}

\* The branches the remote may hold: the release branch, hotfix branches,
\* and a hotfix branch of another version.
RemoteBranchInputs(version) ==
    {NEW_BRANCH_NAME(version, 0)}
        \cup {NEW_BRANCH_NAME(version, n) : n \in ExistingHotfixNumbers}
        \cup {NEW_BRANCH_NAME(v, MaxHotfixNumber) :
                 v \in CutVersions \ {version}}

\* The run before _execute_branch_cut is called: the module level code
\* (lines 74-95) has parsed the arguments.
Parsed(version, hotfix_number, at) ==
    [pc |-> at, version |-> version, hotfix_number |-> hotfix_number,
     remote_alias |-> <<>>, response_code |-> 0,
     branch_to_check |-> <<>>, answer |-> "", prompts |-> 0, passed |-> {}, failed |-> None, error |-> None,
     calls |-> <<>>]

InitCut ==
    /\ store = <<>>
    /\ last = Idle
    /\ now = 0
    /\ pc = [p \in Procs |-> "start"]
    /\ req = [p \in Procs |-> None]
    /\ \E version \in {v \in CutVersions : new_version_type(v)},
          hotfix_number \in 0 .. MaxHotfixNumber :
         /\ cut = Parsed(version, hotfix_number, "require_cwd")
         /\ \E cwd_is_oppia, is_clean, has_remote \in BOOLEAN,
               local \in SUBSET LocalBranchInputs(version),
               heads \in SUBSET RemoteBranchInputs(version),
               tag \in CutTags :
              \E current \in {DEVELOP} \cup (local \cap {NEW_BRANCH_NAME(version, 0)}) :
                 env = [cwd_is_oppia |-> cwd_is_oppia,
                        is_clean |-> is_clean,
                        remotes |-> IF has_remote THEN {UPSTREAM} ELSE {},
                        local |-> local \cup {DEVELOP},
                        current |-> current,
                        tracking |-> {},
                        heads |-> heads \cup {DEVELOP},
                        latest_release_tag |-> tag]

\* The step named check passes and the run goes on at `next`.
Pass(check, next) ==
    [cut EXCEPT !.pc = next, !.passed = @ \cup {check}]

\* The step named check raises error and the script ends.
Raise(check, error) ==
    [cut EXCEPT !.pc = "raised", !.failed = check, !.error = error]

\* common.require_cwd_to_be_oppia()
RequireCwdToBeOppia ==
    /\ cut.pc = "require_cwd"
    /\ cut' = IF env.cwd_is_oppia
              THEN Pass("cwd", "verify_clean")
              ELSE Raise("cwd", "NotOppiaDirectory")
    /\ UNCHANGED <<store, last, now, pc, req, env>>

\* common.verify_local_repo_is_clean()
VerifyLocalRepoIsClean ==
    /\ cut.pc = "verify_clean"
    /\ cut' = IF env.is_clean
              THEN Pass("clean", "verify_branch")
              ELSE Raise("clean", "NotClean")
    /\ UNCHANGED <<store, last, now, pc, req, env>>

\* common.verify_current_branch_name('develop')
VerifyCurrentBranchName ==
    /\ cut.pc = "verify_branch"
    /\ cut' = IF env.current = DEVELOP
              THEN Pass("branch", "update")
              ELSE Raise("branch", "NotOnDevelop")
    /\ UNCHANGED <<store, last, now, pc, req, env>>

\* common.get_remote_alias(REMOTE_URL), then `git pull <alias>`, whose
\* return code is not looked at: the remote-tracking branches are those of
\* the remote when the fetch went through.
UpdateLocalRepo ==
    /\ cut.pc = "update"
    /\ IF env.remotes = {}
       THEN /\ cut' = Raise("remote_alias", "NoRemoteAlias")
            /\ env' = env
       ELSE /\ cut' = [Pass("remote_alias", "verify_target_branch")
                          EXCEPT !.remote_alias = CHOOSE a \in env.remotes : TRUE]
            /\ \E fetched \in BOOLEAN :
                 env' = [env EXCEPT !.tracking =
                                        IF fetched THEN env.heads ELSE @]
    /\ UNCHANGED <<store, last, now, pc, req>>

VerifyTargetBranchDoesNotAlreadyExist ==
    /\ cut.pc = "verify_target_branch"
    /\ LET error == _verify_target_branch_does_not_already_exist(
                        env, cut.version, cut.hotfix_number)
       IN  cut' = IF error = None
                  THEN Pass("target_branch", "verify_version")
                  ELSE Raise("target_branch", error)
    /\ UNCHANGED <<store, last, now, pc, req, env>>

\* The version check on the response of the GitHub API, then the browser
\* tab, which changes nothing here.
VerifyTargetVersion ==
    /\ cut.pc = "verify_version"
    /\ \E code \in ResponseCodes :
         LET error ==
                 _verify_target_version_is_consistent_with_latest_released_version(
                     code, env.latest_release_tag, cut.version)
         IN  cut' = [(IF error = None
                      THEN Pass("version", "confirm")
                      ELSE Raise("version", error))
                        EXCEPT !.response_code = code]
    /\ UNCHANGED <<store, last, now, pc, req, env>>

\* One round of the `while True` loop.
Confirm ==
    /\ cut.pc = "confirm"
    /\ cut.prompts < MaxPrompts
    /\ \E answer \in Answers :
         LET outcome == confirm(answer)
             asked == [cut EXCEPT
                         !.prompts = @ + 1,
                         !.branch_to_check =
                             branch_to_check(cut.version, cut.hotfix_number),
                         !.answer = answer]
         IN  cut' = IF outcome = "break"
                    THEN [asked EXCEPT
                            !.passed = @ \cup {"confirmed"},
                            !.pc = IF NEW_BRANCH_TYPE(cut.hotfix_number)
                                        = HOTFIX_BRANCH_TYPE
                                   THEN "verify_hotfix"
                                   ELSE "checkout"]
                    ELSE IF outcome = "exit"
                    THEN [asked EXCEPT !.pc = "exited", !.failed = "confirmed"]
                    ELSE asked
    /\ UNCHANGED <<store, last, now, pc, req, env>>

VerifyHotfixNumber ==
    /\ cut.pc = "verify_hotfix"
    /\ LET error ==
               _verify_hotfix_number_is_one_ahead_of_previous_hotfix_number(
                   env, cut.remote_alias, cut.version, cut.hotfix_number)
       IN  cut' = IF error = None
                  THEN Pass("hotfix_number", "checkout")
                  ELSE Raise("hotfix_number", error)
    /\ UNCHANGED <<store, last, now, pc, req, env>>

\* `git checkout -b <new> [<start point>]`, whose return code is not
\* looked at: git creates the branch and switches to it when the start
\* point names a local branch and the new name is free.
GitCheckout ==
    /\ cut.pc = "checkout"
    /\ LET new == NEW_BRANCH_NAME(cut.version, cut.hotfix_number)
           hotfix == NEW_BRANCH_TYPE(cut.hotfix_number) = HOTFIX_BRANCH_TYPE
           start == IF hotfix
                    THEN branch_to_cut_from(cut.version, cut.hotfix_number)
                    ELSE <<>>
           created == /\ new \notin env.local
                      /\ hotfix => start \in env.local
       IN  /\ cut' = [cut EXCEPT
                        !.pc = "push",
                        !.calls = Append(@, [cmd |-> "checkout",
                                             branch |-> new,
                                             start_point |-> start,
                                             remote |-> <<>>])]
           /\ env' = IF created
                     THEN [env EXCEPT !.local = @ \cup {new},
                                      !.current = new]
                     ELSE env
    /\ UNCHANGED <<store, last, now, pc, req>>

\* `git push <alias> <new>`, whose return code is not looked at: the
\* remote gets the branch when the local branch exists.
GitPush ==
    /\ cut.pc = "push"
    /\ LET new == NEW_BRANCH_NAME(cut.version, cut.hotfix_number) IN
       /\ cut' = [cut EXCEPT
                    !.pc = "done",
                    !.calls = Append(@, [cmd |-> "push",
                                         branch |-> new,
                                         start_point |-> <<>>,
                                         remote |-> cut.remote_alias])]
       /\ env' = IF new \in env.local
                 THEN [env EXCEPT !.heads = @ \cup {new},
                                  !.tracking = @ \cup {new}]
                 ELSE env
    /\ UNCHANGED <<store, last, now, pc, req>>

\* _execute_branch_cut, step by step.
NextCut ==
    \/ RequireCwdToBeOppia
    \/ VerifyLocalRepoIsClean
    \/ VerifyCurrentBranchName
    \/ UpdateLocalRepo
    \/ VerifyTargetBranchDoesNotAlreadyExist
    \/ VerifyTargetVersion
    \/ Confirm
    \/ VerifyHotfixNumber
    \/ GitCheckout
    \/ GitPush

SpecCut == InitCut /\ [][NextCut]_vars

\* The version check alone, on every pair of a target version and a
\* release tag.
InitVersion ==
    /\ store = <<>>
    /\ last = Idle
    /\ now = 0
    /\ pc = [p \in Procs |-> "start"]
    /\ req = [p \in Procs |-> None]
    /\ \E version \in {v \in VersionInputs : new_version_type(v)},
          tag \in TagInputs :
         /\ cut = Parsed(version, 0, "verify_version")
         /\ env = [cwd_is_oppia |-> TRUE, is_clean |-> TRUE,
                   remotes |-> {UPSTREAM}, local |-> {DEVELOP},
                   current |-> DEVELOP, tracking |-> {DEVELOP},
                   heads |-> {DEVELOP}, latest_release_tag |-> tag]

SpecVersion == InitVersion /\ [][VerifyTargetVersion]_vars

-----------------------------------------------------------------------------
(* The branch cut.                                                         *)

\* The checks of _execute_branch_cut, evaluated on the current state of
\* the repository, of its remote and of the run.
AllChecksSucceed ==
    LET new == NEW_BRANCH_NAME(cut.version, cut.hotfix_number) IN
    /\ env.cwd_is_oppia
    /\ env.is_clean
    /\ env.current = DEVELOP
    /\ new \notin env.local
    /\ new \notin env.heads
    /\ _verify_target_version_is_consistent_with_latest_released_version(
           cut.response_code, env.latest_release_tag, cut.version) = None
    /\ lower(cut.answer) \in AFFIRMATIVE_CONFIRMATIONS
    /\ cut.hotfix_number >= 1
           => _verify_hotfix_number_is_one_ahead_of_previous_hotfix_number(
                  env, cut.remote_alias, cut.version, cut.hotfix_number) = None

\* C24: the script runs `git checkout -b` only in a state where every check
\* succeeds (the working directory is the oppia root, the repository is
\* clean, the current branch is develop, the target branch exists neither
\* locally nor on the remote, the version is consistent, the answer is
\* affirmative and, for a hotfix, the hotfix number check passes), and
\* `git push` only after that checkout; branches change only by these two
\* commands; a run that raised or exited on a non-affirmative answer takes
\* no further step and has run neither command.
C24_BranchIsCutOnlyAfterAllChecks ==
    /\ [][(cut'.calls # cut.calls /\ cut.calls = <<>>)
              => /\ AllChecksSucceed
                 /\ cut'.calls[1].cmd = "checkout"]_vars
    /\ [][(cut'.calls # cut.calls /\ cut.calls # <<>>)
              => /\ Len(cut.calls) = 1
                 /\ cut'.calls[2].cmd = "push"]_vars
    /\ [][(env'.local # env.local \/ env'.heads # env.heads)
              => cut'.calls # cut.calls]_vars
    /\ [][cut.pc \notin {"raised", "exited"}]_vars
    /\ [](cut.pc \in {"raised", "exited"} => cut.calls = <<>>)
    /\ [](cut.failed # None => cut.pc \in {"raised", "exited"})

\* C24 witness: a hotfix run passed every check, created the branch and
\* pushed it.
C24_Witness ==
    /\ cut.pc = "done"
    /\ cut.hotfix_number >= 1
    /\ Len(cut.calls) = 2
    /\ NEW_BRANCH_NAME(cut.version, cut.hotfix_number) \in env.local
    /\ NEW_BRANCH_NAME(cut.version, cut.hotfix_number) \in env.heads

\* C25: with hotfix number 0 the new branch is named release-x.y.z and has
\* type release; with hotfix number d >= 1 it is named
\* release-x.y.z-hotfix-d and has type hotfix; a hotfix branch is cut from
\* release-x.y.z when d = 1 and from release-x.y.z-hotfix-(d-1) when
\* d > 1, the branch the coordinator was asked about.
C25_BranchNameTypeAndStartPoint ==
    LET d == cut.hotfix_number
        release == <<"r", "e", "l", "e", "a", "s", "e", "-">> \o cut.version
        hotfix(n) == release \o <<"-", "h", "o", "t", "f", "i", "x", "-">>
                         \o str(n)
    IN  /\ d = 0 => /\ NEW_BRANCH_NAME(cut.version, d) = release
                    /\ NEW_BRANCH_TYPE(d) = <<"r", "e", "l", "e", "a", "s", "e">>
        /\ d >= 1 => /\ NEW_BRANCH_NAME(cut.version, d) = hotfix(d)
                     /\ NEW_BRANCH_TYPE(d) = <<"h", "o", "t", "f", "i", "x">>
        /\ \A i \in DOMAIN cut.calls :
               /\ cut.calls[i].branch = IF d = 0 THEN release ELSE hotfix(d)
               /\ (cut.calls[i].cmd = "checkout" /\ d >= 1)
                      => /\ cut.calls[i].start_point =
                                IF d = 1 THEN release ELSE hotfix(d - 1)
                         /\ cut.calls[i].start_point = cut.branch_to_check

\* C25 witness: the checkout of a hotfix branch with a number above 1 was
\* run.
C25_Witness ==
    /\ cut.hotfix_number > 1
    /\ cut.calls # <<>>
    /\ cut.calls[1].cmd = "checkout"
    /\ cut.calls[1].start_point =
           NEW_BRANCH_NAME(cut.version, cut.hotfix_number - 1)

\* C26: for a target version and a latest release of single digits, the
\* version check passes if and only if the major numbers are equal and
\* either the minor numbers are equal, the patch number is the previous
\* one plus 1 and is below 10, or the minor number is the previous one
\* plus 1 and the patch number is 0; every other pair is rejected with an
\* assertion failure.
C26_VersionCheckPassesIffConsistent ==
    (/\ cut.pc # "verify_version"
     /\ cut.response_code = 200
     /\ MatchesReleaseTag(env.latest_release_tag))
        => LET prev_major == DigitValue(env.latest_release_tag[2])
               prev_minor == DigitValue(env.latest_release_tag[4])
               prev_patch == DigitValue(env.latest_release_tag[6])
               curr_major == DigitValue(cut.version[1])
               curr_minor == DigitValue(cut.version[3])
               curr_patch == DigitValue(cut.version[5])
               consistent ==
                   /\ curr_major = prev_major
                   /\ \/ /\ curr_minor = prev_minor
                         /\ curr_patch = prev_patch + 1
                         /\ curr_patch < 10
                      \/ /\ curr_minor = prev_minor + 1
                         /\ curr_patch = 0
           IN  /\ ("version" \in cut.passed) <=> consistent
               /\ consistent => cut.error = None
               /\ ~consistent => /\ cut.failed = "version"
                                 /\ cut.error = "AssertionError"

\* C26 witness: the check passed a version whose minor number is one above
\* the one of the latest release and whose patch number is 0.
C26_Witness ==
    /\ "version" \in cut.passed
    /\ cut.version[3] # env.latest_release_tag[4]
    /\ cut.version[5] = "0"

\* The highest n for which the remote-tracking branch
\* <remote>/release-<version>-hotfix-<n> exists, 0 when there is none.
LastRemoteHotfixNumber ==
    LET numbers == {0} \cup {n \in 1 .. MaxHotfixNumber :
                                NEW_BRANCH_NAME(cut.version, n) \in env.tracking}
    IN  CHOOSE n \in numbers : \A k \in numbers : n >= k

\* C27: the hotfix number check passes if and only if the hotfix number is
\* 1 plus the highest hotfix number among the remote branches named
\* <remote>/release-<version>-hotfix-<n>, 0 when there is none; branches of
\* other versions and local branches do not count.
C27_HotfixCheckPassesIffOneAheadOfRemote ==
    ((cut.pc = "checkout" /\ "hotfix_number" \in cut.passed)
         \/ cut.failed = "hotfix_number")
        => (("hotfix_number" \in cut.passed)
                <=> cut.hotfix_number = 1 + LastRemoteHotfixNumber)

\* C28: the target branch check raises if and only if a branch named
\* exactly as the new branch exists locally or on the remote; a branch
\* whose name only contains the new name does not make it raise.
C28_TargetBranchCheckRaisesIffBranchExists ==
    (cut.pc = "verify_version" \/ cut.failed = "target_branch")
        => ((cut.failed = "target_branch")
                <=> \/ NEW_BRANCH_NAME(cut.version, cut.hotfix_number)
                           \in env.local
                    \/ NEW_BRANCH_NAME(cut.version, cut.hotfix_number)
                           \in env.heads)

====
